---------------------------- MODULE Spec2Model ----------------------------
(* Model of the ChatBot widget of src/components/ChatBot.tsx: the React    *)
(* state of the component (isOpen, input, messages, isLoading), the        *)
(* memoised chatSession handle, the sendMessage calls handed to the        *)
(* gateway, and one action per event handler or promise continuation.      *)
(*                                                                         *)
(* A JavaScript string is a sequence of pieces.  Text typed into the input *)
(* field and text returned by the gateway has one character per piece; a   *)
(* string literal of the source is a single piece holding the literal.     *)
EXTENDS Integers, Sequences, FiniteSets, TLC

\* ------------------------------------------------------------------ bounds
\* Longest draft the user types into the input field.
MaxInputLen == 1
\* Number of sendMessage calls after which the model stops accepting sends.
MaxRequests == 2

\* ------------------------------------------------------------- text values
WS == " "
Chars == {WS, "a"}

RECURSIVE StringsUpTo(_)
StringsUpTo(n) ==
    IF n = 0 THEN {<<>>}
    ELSE LET shorter == StringsUpTo(n - 1)
         IN  shorter \cup {Append(s, c) : s \in {t \in shorter : Len(t) = n - 1}, c \in Chars}

\* Values the onChange handler can receive as e.target.value.
InputValues == StringsUpTo(MaxInputLen)

RECURSIVE TrimStart(_)
TrimStart(s) == IF s # <<>> /\ Head(s) = WS THEN TrimStart(Tail(s)) ELSE s

RECURSIVE TrimEnd(_)
TrimEnd(s) ==
    IF s # <<>> /\ s[Len(s)] = WS THEN TrimEnd(SubSeq(s, 1, Len(s) - 1)) ELSE s

\* String.prototype.trim as used on the draft.
Trim(s) == TrimEnd(TrimStart(s))

GREETING == <<"Hi! I'm the USS-Water AI assistant. Ask me anything about the dataset, the U-Net+ model, or our results.">>
NO_RESPONSE == <<"I couldn't generate a response.">>
CHAT_ERROR == <<"Sorry, I encountered an error connecting to the AI service.">>

Message(role, text) == [role |-> role, text |-> text]

InitialMessages_Empty == <<>>
InitialMessages == <<Message("model", GREETING)>>

\* What a sendMessage promise can settle with: a result whose text is a
\* string (possibly empty), a result without text, or a rejection.
Outcomes ==
    {[kind |-> "text", text |-> t] : t \in {<<>>, <<"a">>}}
      \cup {[kind |-> "missing", text |-> <<>>], [kind |-> "error", text |-> <<>>]}

\* ------------------------------------------------------------------- state
VARIABLES
    isOpen,       \* useState(false): the chat window is shown
    input,        \* useState(''): the draft in the input field
    messages,     \* useState([greeting]): the transcript
    isLoading,    \* useState(false): the pending flag
    chatSession,  \* useMemo result: "chat" or "null"
    sessionRuns,  \* times the useMemo factory of chatSession has run
    calls,        \* the sendMessage calls made so far, in order of issue
    lastEvent,    \* the handler or continuation that ran last
    menuOpen,     \* Website, useState(false): the mobile menu is shown
    isDark,       \* Website, useState(false): the dark theme is chosen
    darkClass     \* document.documentElement carries the class 'dark'

vars == <<isOpen, input, messages, isLoading, chatSession, sessionRuns, calls, lastEvent,
          menuOpen, isDark, darkClass>>

\* The state of the Website component and of the document root.
siteVars == <<menuOpen, isDark, darkClass>>

InFlight == {i \in DOMAIN calls : calls[i].status = "pending"}

Event(kind, call, sent) == [kind |-> kind, call |-> call, sent |-> sent]

\* The root class after the dark mode effect has run for theme flag d, the
\* root having carried the class (had) or not before: classList.add when d,
\* classList.remove otherwise.
DarkClassAfterEffect_AddOnly(had, d) == IF d THEN TRUE ELSE had
DarkClassAfterEffect(had, d) == d

\* The first render: the useState initial values, the useMemo factory,
\* which returns the chat handle or, when construction throws, null, and the
\* first run of the dark mode effect.
Init ==
    /\ isOpen = FALSE
    /\ input = <<>>
    /\ messages = InitialMessages
    /\ isLoading = FALSE
    /\ chatSession \in {"chat", "null"}
    /\ sessionRuns = 1
    /\ calls = <<>>
    /\ lastEvent = Event("mount", 0, FALSE)
    /\ menuOpen = FALSE
    /\ isDark = FALSE
    /\ darkClass = DarkClassAfterEffect(FALSE, FALSE)

\* ----------------------------------------------------------------- actions
\* useMemo(factory, []) in a render after the first: the dependencies have
\* not changed, so the stored handle is returned and the factory is not run.
SessionRunsAfterRender_NoDeps == sessionRuns + 1
SessionRunsAfterRender == sessionRuns

\* The render of ChatBot that follows a handler or a continuation.
Render == sessionRuns' = SessionRunsAfterRender

\* Floating action button; it takes no pointer events while the window is
\* open.
Open ==
    /\ ~isOpen
    /\ isOpen' = TRUE
    /\ lastEvent' = Event("open", 0, FALSE)
    /\ Render
    /\ UNCHANGED siteVars
    /\ UNCHANGED <<input, messages, isLoading, chatSession, calls>>

\* The X button in the header of the chat window.
Close_ResetsDraft ==
    /\ isOpen
    /\ isOpen' = FALSE
    /\ input' = <<>>
    /\ lastEvent' = Event("close", 0, FALSE)
    /\ Render
    /\ UNCHANGED siteVars
    /\ UNCHANGED <<messages, isLoading, chatSession, calls>>
Close ==
    /\ isOpen
    /\ isOpen' = FALSE
    /\ lastEvent' = Event("close", 0, FALSE)
    /\ Render
    /\ UNCHANGED siteVars
    /\ UNCHANGED <<input, messages, isLoading, chatSession, calls>>

\* onChange of the input field, rendered only while the window is open.
ChangeInput(v) ==
    /\ isOpen
    /\ input' = v
    /\ lastEvent' = Event("change", 0, FALSE)
    /\ Render
    /\ UNCHANGED siteVars
    /\ UNCHANGED <<isOpen, messages, isLoading, chatSession, calls>>

\* The early return of handleSend: the send goes on only when this holds.
SendGuard_NoSessionCheck == Trim(input) # <<>>
SendGuard_NoTrim == input # <<>> /\ chatSession # "null"
SendGuard == Trim(input) # <<>> /\ chatSession # "null"

\* The text handleSend puts in the user turn and in the request.
UserMessage == Trim(input)

\* The draft after an accepted send: setInput('').
InputAfterSend_Kept == input
InputAfterSend == <<>>

\* The transcript after an accepted send, at the moment the call is issued.
MessagesAfterSend_Late == messages
MessagesAfterSend == Append(messages, Message("user", UserMessage))

\* handleSend up to its await: the early return, or the three state updates
\* and the sendMessage call.  `via` names the handler that called it.
HandleSend(via) ==
    IF SendGuard
    THEN /\ Len(calls) < MaxRequests
         /\ input' = InputAfterSend
         /\ messages' = MessagesAfterSend
         /\ isLoading' = TRUE
         /\ calls' = Append(calls, [message |-> UserMessage,
                                    status |-> "pending",
                                    outcome |-> [kind |-> "none", text |-> <<>>],
                                    lenBefore |-> Len(messages),
                                    lenSettled |-> 0])
         /\ lastEvent' = Event(via, Len(calls) + 1, TRUE)
         /\ Render
         /\ UNCHANGED siteVars
         /\ UNCHANGED <<isOpen, chatSession>>
    ELSE /\ lastEvent' = Event(via, 0, FALSE)
         /\ Render
         /\ UNCHANGED siteVars
         /\ UNCHANGED <<isOpen, input, messages, isLoading, chatSession, calls>>

\* The disabled attribute of the send button.
SendButtonDisabled == Trim(input) = <<>> \/ isLoading

\* onClick of the send button.
ClickSend ==
    /\ isOpen
    /\ ~SendButtonDisabled
    /\ HandleSend("click")

\* The keydown event as the user made it: Enter, Enter with Shift held, or
\* another key.
KeyName(key, shiftKey) ==
    IF key = "Enter" THEN (IF shiftKey THEN "shift+enter" ELSE "enter") ELSE "key"

\* handleKeyPress: onKeyDown of the input field.
HandleKeyPress_IgnoreShift(key, shiftKey) ==
    /\ isOpen
    /\ IF key = "Enter"
       THEN HandleSend(KeyName(key, shiftKey))
       ELSE /\ lastEvent' = Event(KeyName(key, shiftKey), 0, FALSE)
            /\ Render
            /\ UNCHANGED siteVars
            /\ UNCHANGED <<isOpen, input, messages, isLoading, chatSession, calls>>
HandleKeyPress(key, shiftKey) ==
    /\ isOpen
    /\ IF key = "Enter" /\ ~shiftKey
       THEN HandleSend(KeyName(key, shiftKey))
       ELSE /\ lastEvent' = Event(KeyName(key, shiftKey), 0, FALSE)
            /\ Render
            /\ UNCHANGED siteVars
            /\ UNCHANGED <<isOpen, input, messages, isLoading, chatSession, calls>>

\* The assistant turn appended when a call settles with outcome o.
ReplyText_Nullish(o) ==
    IF o.kind = "error" THEN CHAT_ERROR
    ELSE IF o.kind = "missing" THEN NO_RESPONSE
    ELSE o.text
ReplyText_NoFallback(o) ==
    IF o.kind = "error" THEN CHAT_ERROR ELSE o.text
ReplyText_And(o) ==
    IF o.kind = "error" THEN CHAT_ERROR
    ELSE IF o.kind = "missing" \/ o.text = <<>> THEN o.text
    ELSE NO_RESPONSE
ReplyText(o) ==
    IF o.kind = "error" THEN CHAT_ERROR
    ELSE IF o.kind = "missing" \/ o.text = <<>> THEN NO_RESPONSE
    ELSE o.text

\* The pending flag after a call has settled (the finally block).
LoadingAfterSettle_TryOnly(o) == IF o.kind = "error" THEN isLoading ELSE FALSE
LoadingAfterSettle_CatchOnly(o) == IF o.kind = "error" THEN FALSE ELSE isLoading
LoadingAfterSettle(o) == FALSE

\* The transcript after call i has settled with outcome o: the functional
\* update of setMessages appends to the transcript of that moment.
MessagesAfterSettle_StaleClosure(i, o) ==
    Append(SubSeq(messages, 1, calls[i].lenBefore), Message("model", ReplyText(o)))
MessagesAfterSettle_EmptySkipped(i, o) ==
    IF o.kind = "missing" \/ (o.kind = "text" /\ o.text = <<>>) THEN messages
    ELSE Append(messages, Message("model", ReplyText(o)))
MessagesAfterSettle_NoCatch(i, o) ==
    IF o.kind = "error" THEN messages
    ELSE Append(messages, Message("model", ReplyText(o)))
MessagesAfterSettle(i, o) == Append(messages, Message("model", ReplyText(o)))

\* The calls after call i has settled with outcome o and the transcript has
\* grown to n turns: call i is closed and no call is issued again.
CallsAfterSettle_Retry(i, o, n) ==
    LET closed == [calls EXCEPT ![i].status = IF o.kind = "error" THEN "rejected" ELSE "resolved",
                                ![i].outcome = o,
                                ![i].lenSettled = n]
    IN  IF o.kind = "error" /\ Len(calls) < MaxRequests
        THEN Append(closed, [calls[i] EXCEPT !.lenBefore = n - 1])
        ELSE closed
CallsAfterSettle(i, o, n) ==
    [calls EXCEPT ![i].status = IF o.kind = "error" THEN "rejected" ELSE "resolved",
                  ![i].outcome = o,
                  ![i].lenSettled = n]

\* handleSend after its await: the promise of call i settles with outcome o
\* and the try, catch and finally blocks run.
Settle(i, o) ==
    /\ i \in InFlight
    /\ messages' = MessagesAfterSettle(i, o)
    /\ isLoading' = LoadingAfterSettle(o)
    /\ calls' = CallsAfterSettle(i, o, Len(messages'))
    /\ lastEvent' = Event("settle", i, FALSE)
    /\ Render
    /\ UNCHANGED siteVars
    /\ UNCHANGED <<isOpen, input, chatSession>>

Next ==
    \/ Open
    \/ Close
    \/ \E v \in InputValues : ChangeInput(v)
    \/ ClickSend
    \/ \E key \in {"Enter", "a"}, shiftKey \in BOOLEAN : HandleKeyPress(key, shiftKey)
    \/ \E i \in DOMAIN calls, o \in Outcomes : Settle(i, o)

\* The ChatBot component alone: the handlers of Website leave its state
\* untouched, so the page is left as it was first rendered.
Spec == Init /\ [][Next]_vars

\* The gateway answers: the promise of every call issued is eventually
\* resolved or rejected, and the continuation of handleSend then runs.
FairSpec ==
    Spec /\ \A i \in 1..MaxRequests : WF_vars(\E o \in Outcomes : Settle(i, o))

\* ------------------------------------------------------- Website actions
\* The ChatBot state, which no handler of Website can reach.  A render of
\* Website renders its child ChatBot again.
chatVars == <<isOpen, input, messages, isLoading, chatSession, calls>>

\* The sections the navigation links name.
Sections == {"intro", "dataset", "model", "results"}

\* The dark mode buttons: setIsDark(!isDark), then the effect on [isDark].
ToggleDark ==
    /\ isDark' = ~isDark
    /\ darkClass' = DarkClassAfterEffect(darkClass, isDark')
    /\ lastEvent' = Event("toggleDark", 0, FALSE)
    /\ Render
    /\ UNCHANGED <<menuOpen, chatVars>>

\* The menu button of the narrow layout: setMenuOpen(!menuOpen).
ToggleMenu ==
    /\ menuOpen' = ~menuOpen
    /\ lastEvent' = Event("toggleMenu", 0, FALSE)
    /\ Render
    /\ UNCHANGED <<isDark, darkClass, chatVars>>

\* menuOpen after scrollToSection, whose getElementById found the section
\* (found) or returned null.
MenuAfterScroll_OnlyIfFound(found) == IF found THEN FALSE ELSE menuOpen
MenuAfterScroll(found) == FALSE

\* scrollToSection(id): a click on a navigation link.  The scroll position
\* of the window, which it moves when the section is found, is not part of
\* the state.
ScrollToSection(id, found) ==
    /\ menuOpen' = MenuAfterScroll(found)
    /\ lastEvent' = Event(IF found THEN "scrollTo" ELSE "scrollToMissing", 0, FALSE)
    /\ Render
    /\ UNCHANGED <<isDark, darkClass, chatVars>>

\* The GitHub link of the mobile menu, rendered while the menu is shown.
MenuGitHubLink ==
    /\ menuOpen
    /\ menuOpen' = FALSE
    /\ lastEvent' = Event("github", 0, FALSE)
    /\ Render
    /\ UNCHANGED <<isDark, darkClass, chatVars>>

\* The page as the user drives it: every event handler of Website and of
\* its ChatBot.  The gateway stays silent here, so the calls issued remain
\* in flight; what a settling call does is covered by Spec, and no handler
\* of Website reads or writes anything a settling call touches.
SiteNext ==
    \/ ToggleDark
    \/ ToggleMenu
    \/ \E id \in Sections, found \in BOOLEAN : ScrollToSection(id, found)
    \/ MenuGitHubLink
    \/ Open
    \/ Close
    \/ \E v \in InputValues : ChangeInput(v)
    \/ ClickSend
    \/ \E key \in {"Enter", "a"}, shiftKey \in BOOLEAN : HandleKeyPress(key, shiftKey)

SiteSpec == Init /\ [][SiteNext]_vars

\* ------------------------------------------------------------ properties
SendInvoked(e) == e.kind \in {"click", "enter"}

IsPrefix(s, t) == Len(s) <= Len(t) /\ SubSeq(t, 1, Len(s)) = s

\* C1: at most one sendMessage call is in flight in every reachable state.
C1_MutualExclusion == Cardinality(InFlight) <= 1

\* C2: a handleSend call made with a non-blank draft while the pending flag
\* is set appends no turn, issues no call and leaves the pending flag alone.
C2_RejectedWhilePending ==
    [][(isLoading /\ Trim(input) # <<>> /\ SendInvoked(lastEvent'))
          => UNCHANGED <<messages, calls, isLoading>>]_vars

\* C3: a handleSend call made with an empty or whitespace-only draft changes
\* neither the transcript, nor the pending flag, nor the calls issued.
C3_BlankSendNoOp ==
    [][((\A k \in DOMAIN input : input[k] = " ") /\ SendInvoked(lastEvent'))
          => UNCHANGED <<messages, isLoading, calls>>]_vars

\* A whitespace-only draft has been submitted with Enter while a call of an
\* enabled session was in flight.
C3_Witness ==
    /\ lastEvent.kind = "enter"
    /\ input # <<>> /\ \A k \in DOMAIN input : input[k] = " "
    /\ chatSession = "chat"
    /\ isLoading

\* C4: once the handle is null it stays null, and in every such state the
\* transcript is the greeting alone, the pending flag is clear and no call
\* has been issued, whatever was submitted.
C4_DisabledIsInert ==
    /\ [](chatSession = "null" =>
            /\ messages = InitialMessages
            /\ ~isLoading
            /\ calls = <<>>)
    /\ [][chatSession = "null" => chatSession' = "null"]_vars

\* A non-blank draft has been submitted on a session whose handle is null.
C4_Witness ==
    /\ chatSession = "null"
    /\ lastEvent.kind = "enter"
    /\ Trim(input) # <<>>

\* C5: when a call has settled, the transcript is two turns longer than it
\* was just before the send that issued the call was accepted.
C5_AppendInvariant ==
    \A i \in DOMAIN calls :
        calls[i].status # "pending" => calls[i].lenSettled = calls[i].lenBefore + 2

\* C6: the pending flag is set exactly when some call is in flight.
C6_PendingIffInFlight == isLoading <=> InFlight # {}

\* C7: the pending flag is clear right after a call settles, whatever the
\* outcome, and it is never set while no call is in flight.
C7_GateRelease ==
    /\ lastEvent.kind = "settle" => ~isLoading
    /\ isLoading => InFlight # {}

\* A call has just settled by rejection.
C7_Witness ==
    /\ lastEvent.kind = "settle"
    /\ calls[lastEvent.call].status = "rejected"

\* C8: the turn appended when a call settles is the assistant turn "I
\* couldn't generate a response." if the result has empty or missing text,
\* and "Sorry, I encountered an error connecting to the AI service." if the
\* call failed.
C8_FallbackText ==
    lastEvent.kind = "settle" =>
        LET o == calls[lastEvent.call].outcome
            last == messages[Len(messages)]
        IN  /\ (o.kind = "missing" \/ (o.kind = "text" /\ o.text = <<>>))
                 => last = [role |-> "model", text |-> <<"I couldn't generate a response.">>]
            /\ o.kind = "error"
                 => last = [role |-> "model",
                            text |-> <<"Sorry, I encountered an error connecting to the AI service.">>]

\* A call has just settled with a result whose text is the empty string.
C8_Witness ==
    /\ lastEvent.kind = "settle"
    /\ calls[lastEvent.call].outcome = [kind |-> "text", text |-> <<>>]

\* C9: a call settling with non-empty text T appends exactly the assistant
\* turn T; and when the only call of a session, with message X, has settled
\* with non-empty T, the transcript is [greeting, user X, assistant T] and
\* the pending flag is clear.
C9_ReplyAppended ==
    /\ [][(lastEvent'.kind = "settle"
             /\ calls'[lastEvent'.call].outcome.kind = "text"
             /\ calls'[lastEvent'.call].outcome.text # <<>>)
            => messages' = Append(messages,
                   [role |-> "model", text |-> calls'[lastEvent'.call].outcome.text])]_vars
    /\ []((Len(calls) = 1 /\ calls[1].outcome.kind = "text" /\ calls[1].outcome.text # <<>>)
            => /\ messages = <<InitialMessages[1],
                               [role |-> "user", text |-> calls[1].message],
                               [role |-> "model", text |-> calls[1].outcome.text]>>
               /\ ~isLoading)

\* The first send of a session has just been answered with the text "a".
C9_Witness ==
    /\ Len(calls) = 1
    /\ lastEvent.kind = "settle"
    /\ calls[1].outcome = [kind |-> "text", text |-> <<"a">>]

\* C10: across every step the old transcript is a prefix of the new one.
C10_AppendOnly == [][IsPrefix(messages, messages')]_vars

\* A user turn is still in the transcript, followed by the error turn of its
\* failed call, after a later send has been accepted.
C10_Witness ==
    /\ Len(messages) >= 4
    /\ messages[2].role = "user"
    /\ messages[3] = Message("model", CHAT_ERROR)
    /\ calls[1].status = "rejected"

\* C11: a call that fails leaves the error turn appended and the pending
\* flag clear, and a handleSend call made afterwards with a non-blank draft
\* on an enabled session is accepted as a first one is: the draft is cleared,
\* the user turn with the trimmed draft is appended, the pending flag is set
\* and one call is issued.
C11_FailureRecovered ==
    /\ []((lastEvent.kind = "settle" /\ calls[lastEvent.call].status = "rejected")
            => /\ messages[Len(messages)] =
                    [role |-> "model",
                     text |-> <<"Sorry, I encountered an error connecting to the AI service.">>]
               /\ Len(messages) > calls[lastEvent.call].lenBefore + 1
               /\ ~isLoading)
    /\ [][((\E i \in DOMAIN calls : calls[i].status = "rejected")
             /\ SendInvoked(lastEvent')
             /\ Trim(input) # <<>> /\ chatSession = "chat")
            => /\ messages' = Append(messages, [role |-> "user", text |-> Trim(input)])
               /\ isLoading'
               /\ input' = <<>>
               /\ Len(calls') = Len(calls) + 1
               /\ calls'[Len(calls')].status = "pending"]_vars

\* A second send has just been accepted after the first call failed.
C11_Witness ==
    /\ Len(calls) = 2
    /\ calls[1].status = "rejected"
    /\ SendInvoked(lastEvent) /\ lastEvent.call = 2
    /\ calls[2].lenBefore = 3

\* C12: no click of the send button and no Enter key press reaches
\* handleSend while the pending flag is set or while the handle is null.
C12_SubmissionDisabled ==
    [][SendInvoked(lastEvent') => (~isLoading /\ chatSession # "null")]_vars

\* C13: the transcript is never empty and starts with the assistant greeting
\* turn; what a sendMessage call carries is the text of the user turn its
\* send appended, a turn after the greeting, and nothing of the greeting.
C13_GreetingFirst ==
    /\ Len(messages) >= 1
    /\ messages[1] =
         [role |-> "model",
          text |-> <<"Hi! I'm the USS-Water AI assistant. Ask me anything about the dataset, the U-Net+ model, or our results.">>]
    /\ \A i \in DOMAIN calls :
         /\ calls[i].lenBefore >= 1
         /\ messages[calls[i].lenBefore + 1] = [role |-> "user", text |-> calls[i].message]
         /\ calls[i].message # messages[1].text

\* Two sends have been made and answered and the greeting is still first.
C13_Witness ==
    /\ Len(messages) = 5
    /\ InFlight = {}
    /\ messages[1].role = "model"

UserTurns == {k \in DOMAIN messages : messages[k].role = "user"}

C15_Alternation ==
    \A k \in 2..Len(messages) :
        messages[k].role = IF k % 2 = 0 THEN "user" ELSE "model"

\* C16: when every call issued eventually settles, a state with the pending
\* flag set is followed by a state reached by a settling call in which the
\* flag is clear and an assistant turn is the last turn, and no call stays
\* in flight for ever.
C16_PendingReturnsToReady ==
    /\ isLoading ~> (/\ lastEvent.kind = "settle"
                     /\ ~isLoading
                     /\ messages[Len(messages)].role = "model")
    /\ \A i \in 1..MaxRequests : []<>(i \notin InFlight)

\* A call has just settled with a result that has no text, and the flag is
\* clear.
C16_Witness ==
    /\ lastEvent.kind = "settle"
    /\ calls[lastEvent.call].outcome.kind = "missing"
    /\ ~isLoading

ModelTurns == {k \in DOMAIN messages : messages[k].role = "model"}

\* C17: as long as a call has not settled the pending flag stays set, and
\* the assistant turns after the greeting are only those of the calls that
\* have settled, none for a call still in flight.
C17_PendingUntilSettled ==
    InFlight # {} =>
        /\ isLoading
        /\ Cardinality(ModelTurns) = 1 + Len(calls) - Cardinality(InFlight)

\* C18: in every state, also with a call in flight, the closed widget can be
\* opened and the open widget can be closed; opening and closing change
\* isOpen and nothing else; and a call that settles while the widget is
\* closed still appends its assistant turn.
C18_OpenCloseFrame ==
    /\ []((~isOpen => ENABLED Open) /\ (isOpen => ENABLED Close))
    /\ [][lastEvent'.kind \in {"open", "close"}
            => /\ isOpen' = ~isOpen
               /\ UNCHANGED <<messages, isLoading, input, calls, chatSession>>]_vars
    /\ [][(lastEvent'.kind = "settle" /\ ~isOpen)
            => /\ Len(messages') = Len(messages) + 1
               /\ messages'[Len(messages')].role = "model"]_vars

\* The widget was closed with a draft typed and a call in flight, and the
\* call has settled while it was closed.
C18_Witness ==
    /\ ~isOpen
    /\ input # <<>>
    /\ lastEvent.kind = "settle"
    /\ Len(messages) = 3

\* C19: a click of the send button and an Enter key press without Shift run
\* handleSend, which with a non-blank draft on an enabled session issues a
\* call; an Enter key press with Shift held and a press of any other key
\* change neither the transcript, nor the pending flag, nor the draft, and
\* issue no call.
C19_SubmitKeys ==
    /\ [][(lastEvent'.kind \in {"click", "enter"} /\ Trim(input) # <<>> /\ chatSession = "chat")
            => /\ Len(calls') = Len(calls) + 1
               /\ Len(messages') = Len(messages) + 1]_vars
    /\ [][lastEvent'.kind \in {"shift+enter", "key"}
            => UNCHANGED <<messages, isLoading, calls, input>>]_vars

\* Enter with Shift held has been pressed on a non-blank draft of an enabled
\* session, and the draft is still there.
C19_Witness ==
    /\ lastEvent.kind = "shift+enter"
    /\ Trim(input) # <<>>
    /\ chatSession = "chat"
    /\ calls = <<>>

C21_StepOrder ==
    /\ [][Len(calls') > Len(calls)
            => /\ isLoading'
               /\ messages'[Len(messages')] =
                    [role |-> "user", text |-> calls'[Len(calls')].message]]_vars
    /\ [](\A i \in InFlight :
            /\ calls[i].lenBefore + 1 <= Len(messages)
            /\ messages[calls[i].lenBefore + 1] = [role |-> "user", text |-> calls[i].message])
    /\ [](Cardinality(ModelTurns) - 1 = Len(calls) - Cardinality(InFlight))

\* Two calls are in flight and a draft is being typed for a third send.
C21_Witness ==
    /\ Cardinality(InFlight) = 2
    /\ Len(messages) = 3
    /\ lastEvent.kind = "change"

\* C22: the user turns are as many as the assistant turns after the greeting
\* plus the calls in flight; so the assistant turns after the greeting never
\* outnumber the user turns, and equal them when no call is in flight.
C22_TurnCount ==
    /\ Cardinality(UserTurns) = (Cardinality(ModelTurns) - 1) + Cardinality(InFlight)
    /\ Cardinality(ModelTurns) - 1 <= Cardinality(UserTurns)
    /\ InFlight = {} => Cardinality(UserTurns) = Cardinality(ModelTurns) - 1

\* Of two overlapping calls one has settled with a result without text and
\* the other is still in flight.
C22_Witness ==
    /\ Len(calls) = 2
    /\ Cardinality(InFlight) = 1
    /\ \E i \in DOMAIN calls : calls[i].outcome.kind = "missing"
    /\ Len(messages) = 4

\* C23: a handleSend call that is accepted leaves the draft empty, one that
\* is rejected (blank draft or null handle) leaves the draft as it was, and
\* a submission that directly follows an accepted send, with nothing typed
\* in between, changes nothing and issues no call.
C23_DraftHandling ==
    /\ [][SendInvoked(lastEvent')
            => IF Trim(input) # <<>> /\ chatSession # "null"
               THEN input' = <<>> /\ Len(calls') = Len(calls) + 1
               ELSE input' = input /\ calls' = calls]_vars
    /\ [][(SendInvoked(lastEvent) /\ lastEvent.call # 0 /\ SendInvoked(lastEvent'))
            => UNCHANGED <<input, messages, isLoading, calls>>]_vars

\* Enter has been pressed again right after an accepted send and found the
\* draft empty.
C23_Witness ==
    /\ lastEvent.kind = "enter" /\ lastEvent.call = 0
    /\ input = <<>>
    /\ Len(calls) = 1 /\ InFlight = {1}
    /\ Len(messages) = 2

\* C24: the factory of the chat handle runs once, at the first render, and
\* no step replaces the handle or runs the factory again; so the handle is
\* null in every state or in none.
C24_SessionStable ==
    /\ [](sessionRuns = 1)
    /\ [][chatSession' = chatSession /\ sessionRuns' = sessionRuns]_vars

\* Two sends have gone through the handle and the widget has been closed.
C24_Witness ==
    /\ chatSession = "chat"
    /\ sessionRuns = 1
    /\ Len(calls) = 2 /\ InFlight = {}
    /\ lastEvent.kind = "close"

\* C25: a click on a navigation link leaves menuOpen false, whether or not
\* the section it names is found, and changes neither the theme flag and the
\* root class nor anything of the chat widget.
C25_MenuClosedByLink ==
    [][lastEvent'.kind \in {"scrollTo", "scrollToMissing"}
         => /\ menuOpen' = FALSE
            /\ UNCHANGED <<isDark, darkClass, messages, isLoading, input, isOpen, calls,
                           chatSession>>]_vars

\* With the mobile menu shown, the dark theme chosen and a call in flight, a
\* link to a section that is not in the document has just been clicked.
C25_Witness ==
    /\ lastEvent.kind = "scrollToMissing"
    /\ ~menuOpen
    /\ isDark
    /\ isLoading /\ InFlight # {}

\* C26: in every state the document root carries the class 'dark' exactly
\* when isDark is true, and every click on a dark mode button inverts isDark,
\* so that a second click gives back the theme there was before the first.
C26_DarkMode ==
    /\ [](isDark \in BOOLEAN /\ darkClass = isDark)
    /\ [][lastEvent'.kind = "toggleDark" => isDark' = ~isDark]_vars
    /\ [][(lastEvent.kind = "toggleDark" /\ lastEvent'.kind = "toggleDark")
            => (isDark' = ~isDark /\ darkClass' = isDark')]_vars

\* The theme has been switched to dark and back to light.
C26_Witness ==
    /\ lastEvent.kind = "toggleDark"
    /\ ~isDark
    /\ ~darkClass

=============================================================================
